---- MODULE Spec2Model ----
(***************************************************************************)
(* Model of the ticketed lock (src/src/raw.rs, src/src/lib.rs).            *)
(*                                                                         *)
(* Every call of TicketedLock::issue creates link, seal and legacy number  *)
(* next_index.  Arc strong counts are kept explicitly (sealCount,          *)
(* legacyCount, dataCount); an Arc whose count reaches zero is destroyed.  *)
(* Ticket handles are counted per index and per position in Ticket::wait.  *)
(***************************************************************************)
EXTENDS Integers, Sequences, FiniteSets

\* Bounds of the model.
MaxIssue == 3
MaxClones == 1

Idx == 1..MaxIssue

VARIABLES
    next_index,   \* TicketedLock.next_index
    legacies,     \* TicketedLock.legacies: Vec<Weak<Mutex<Legacy>>>, by index
    last_read,    \* TicketedLock.last_read: 0 is None, else the cached index
    flag,         \* Link.mutex: the released flag of link i
    notify,       \* Seal::drop of link i has set the flag, notify_all pending
    sealCount,    \* strong count of Arc<Seal> i
    legacy,       \* contents of Mutex<Legacy> i: the seals pushed into it
    legacyCount,  \* strong count of Arc<Mutex<Legacy>> i
    kind,         \* access of the tickets of index i: "none", "read", "write"
    tickets,      \* tickets of index i not yet waited on
    parked,       \* threads inside cond_var.wait of link i
    woken,        \* threads woken from cond_var.wait, about to re-check
    guards,       \* LockGuards of index i alive
    cloned,       \* clones made of the tickets of index i
    dataCount,    \* strong count of Arc<UnsafeCell<T>>
    pc,           \* position of the thread that owns the TicketedLock
    curKind,      \* access requested by the issuance in progress
    pos,          \* position of retain in legacies
    order,        \* history: indices in the order their guards were created
    liveAtStart,  \* history: registries live when the issuance in progress began
    deadAtStart,  \* history: listed registries already dead when it began
    examinedLive  \* history: registries whose upgrade succeeded in it

vars == <<next_index, legacies, last_read, flag, notify, sealCount, legacy,
          legacyCount, kind, tickets, parked, woken, guards, cloned, dataCount,
          pc, curKind, pos, order, liveAtStart, deadAtStart, examinedLive>>

linkVars == <<flag, notify, sealCount, legacy, legacyCount>>
waitVars == <<parked, woken, order, cloned>>
lockVars == <<next_index, legacies, last_read, pc, curKind, pos>>
histVars == <<liveAtStart, deadAtStart, examinedLive>>

Range(s) == {s[k] : k \in 1..Len(s)}

RemoveAt(s, k) == SubSeq(s, 1, k - 1) \o SubSeq(s, k + 1, Len(s))

\* Number of tickets and guards of index i in existence.
Handles(i) == tickets[i] + parked[i] + woken[i] + guards[i]

RECURSIVE SumHandles(_)
SumHandles(S) ==
    IF S = {} THEN 0
    ELSE LET i == CHOOSE x \in S : TRUE IN Handles(i) + SumHandles(S \ {i})

\* Tickets and guards of the lock in existence.
TotalHandles == SumHandles(Idx)

\* The ticket of index i has been handed out by read() or write().
Issued(i) == kind[i] # "none"

\* issue() holds the legacy of index i through an upgraded weak reference.
IssueHolds(i) == pc = "upgraded" /\ legacies[pos] = i

Init ==
    /\ next_index = 0
    /\ legacies = <<>>
    /\ last_read = 0
    /\ flag = [i \in Idx |-> FALSE]
    /\ notify = [i \in Idx |-> FALSE]
    /\ sealCount = [i \in Idx |-> 0]
    /\ legacy = [i \in Idx |-> <<>>]
    /\ legacyCount = [i \in Idx |-> 0]
    /\ kind = [i \in Idx |-> "none"]
    /\ tickets = [i \in Idx |-> 0]
    /\ parked = [i \in Idx |-> 0]
    /\ woken = [i \in Idx |-> 0]
    /\ guards = [i \in Idx |-> 0]
    /\ cloned = [i \in Idx |-> 0]
    /\ dataCount = 1
    /\ pc = "idle"
    /\ curKind = "none"
    /\ pos = 0
    /\ order = <<>>
    /\ liveAtStart = {}
    /\ deadAtStart = {}
    /\ examinedLive = {}

(***************************************************************************)
(* Arc bookkeeping                                                         *)
(***************************************************************************)

\* Number of occurrences of seal s in the vector S.
Occ(s, S) == Cardinality({k \in 1..Len(S) : S[k] = s})

\* An Arc runs the destructor of its value when the last strong reference
\* goes away.
LastRef(old, new) == old > 0 /\ new = 0

\* A seal that fires whenever one of its owners goes away.
SealFiresEager(old, new) == new < old

\* Seal::drop runs once per Seal, when the Arc<Seal> loses its last owner.
SealFires(old, new) == LastRef(old, new)

\* The Arc<Seal>s of the vector S are dropped.  A seal whose count reaches
\* zero runs Seal::drop: the flag of its link becomes true, and notify_all
\* follows.
AfterSealDrops(sc, fl, nt, S) ==
    LET nsc == [s \in Idx |-> sc[s] - Occ(s, S)]
    IN  [sealCount |-> nsc,
         flag      |-> [s \in Idx |-> fl[s] \/ SealFires(sc[s], nsc[s])],
         notify    |-> [s \in Idx |-> nt[s] \/ SealFires(sc[s], nsc[s])]]

\* A legacy whose vector is leaked and never dropped.
LegacyLeaked(old, new) == FALSE

\* A legacy whose vector is dropped with each owner, not with the last.
LegacyDestroyedPerClone(old, new) == new < old

\* Whether dropping an owner of a legacy drops the vector in it.
LegacyDestroyed(old, new) == LastRef(old, new)

\* One Arc<Mutex<Legacy>> of index e is dropped (a ticket, a guard or the
\* upgraded reference of issue).  The last one drops the vector and with
\* it every Arc<Seal> it holds.
AfterLegacyDrop(e, lc, lg, sc, fl, nt) ==
    LET nlc == [lc EXCEPT ![e] = @ - 1]
    IN  IF LegacyDestroyed(lc[e], nlc[e])
        THEN LET r == AfterSealDrops(sc, fl, nt, lg[e])
             IN  [legacyCount |-> nlc, legacy |-> [lg EXCEPT ![e] = <<>>],
                  sealCount |-> r.sealCount, flag |-> r.flag,
                  notify |-> r.notify]
        ELSE [legacyCount |-> nlc, legacy |-> lg, sealCount |-> sc,
              flag |-> fl, notify |-> nt]

SetLink(r) ==
    /\ legacyCount' = r.legacyCount
    /\ legacy' = r.legacy
    /\ sealCount' = r.sealCount
    /\ flag' = r.flag
    /\ notify' = r.notify

(***************************************************************************)
(* Issuance: TicketedLock::read, TicketedLock::write, TicketedLock::issue  *)
(***************************************************************************)

\* An upgrade that always fails.
UpgradeNever(e) == FALSE

\* Weak::upgrade succeeds while a strong reference exists.
Upgrade(e) == legacyCount[e] > 0

\* A closure that keeps every entry.
RetainAll(upgraded) == TRUE

\* A closure that drops every entry.
RetainNone(upgraded) == FALSE

\* The value the closure of retain returns for an entry: true keeps it.
Retain(upgraded) == upgraded

\* A read() that caches its ticket with a write() that does not clear it.
LastReadNotCleared(k) == IF k = "read" THEN next_index + 1 ELSE last_read

\* write() clears last_read; read() leaves it as it is.
LastReadAfter(k) == IF k = "write" THEN 0 ELSE last_read

\* The data reference a ticket of lib.rs carries (self.data.clone()).
DataWithTicket(d) == d + 1

\* An issue() that creates and lists the new legacy before retain walks
\* the list.
IssueBeginRegistersFirst(k) ==
    /\ pc = "idle"
    /\ next_index < MaxIssue
    /\ next_index' = next_index + 1
    /\ last_read' = LastReadAfter(k)
    /\ flag' = [flag EXCEPT ![next_index'] = FALSE]
    /\ sealCount' = [sealCount EXCEPT ![next_index'] = 1]
    /\ legacies' = Append(legacies, next_index')
    /\ legacyCount' = [legacyCount EXCEPT ![next_index'] = 1]
    /\ pc' = "retain"
    /\ curKind' = k
    /\ pos' = 1
    /\ liveAtStart' = {e \in Range(legacies) : Upgrade(e)}
    /\ deadAtStart' = {e \in Range(legacies) : ~Upgrade(e)}
    /\ examinedLive' = {}
    /\ UNCHANGED <<tickets, dataCount, cloned, notify, legacy, kind, guards,
                   parked, woken, order>>

\* read() with a cached ticket returns a clone of it.  Otherwise read() and
\* write() enter issue(): next_index is incremented, the link is created
\* with a false flag and the seal with one owner, the local of issue().
IssueBegin(k) ==
    /\ pc = "idle"
    /\ IF k = "read" /\ last_read # 0
       THEN /\ cloned[last_read] < MaxClones
            /\ cloned' = [cloned EXCEPT ![last_read] = @ + 1]
            /\ tickets' = [tickets EXCEPT ![last_read] = @ + 1]
            /\ legacyCount' = [legacyCount EXCEPT ![last_read] = @ + 1]
            /\ dataCount' = DataWithTicket(dataCount)
            /\ UNCHANGED <<next_index, last_read, flag, sealCount, pc,
                           curKind, pos, histVars>>
       ELSE /\ next_index < MaxIssue
            /\ next_index' = next_index + 1
            /\ last_read' = LastReadAfter(k)
            /\ flag' = [flag EXCEPT ![next_index'] = FALSE]
            /\ sealCount' = [sealCount EXCEPT ![next_index'] = 1]
            /\ pc' = "retain"
            /\ curKind' = k
            /\ pos' = 1
            /\ liveAtStart' = {e \in Range(legacies) : Upgrade(e)}
            /\ deadAtStart' = {e \in Range(legacies) : ~Upgrade(e)}
            /\ examinedLive' = {}
            /\ UNCHANGED <<tickets, legacyCount, dataCount, cloned>>
    /\ UNCHANGED <<legacies, notify, legacy, kind, guards, parked, woken,
                   order>>

\* The closure of retain examines the entry at pos: a dead entry is
\* removed, a live one is upgraded.
RetainUpgrade ==
    /\ pc = "retain"
    /\ pos <= Len(legacies)
    /\ LET e == legacies[pos]
       IN  IF Upgrade(e)
           THEN /\ legacyCount' = [legacyCount EXCEPT ![e] = @ + 1]
                /\ examinedLive' = examinedLive \cup {e}
                /\ pc' = "upgraded"
                /\ UNCHANGED <<legacies, pos>>
           ELSE /\ IF Retain(FALSE)
                   THEN legacies' = legacies /\ pos' = pos + 1
                   ELSE legacies' = RemoveAt(legacies, pos) /\ pos' = pos
                /\ UNCHANGED <<legacyCount, examinedLive, pc>>
    /\ UNCHANGED <<next_index, last_read, flag, notify, sealCount, legacy,
                   kind, tickets, guards, dataCount, curKind, waitVars,
                   liveAtStart, deadAtStart>>

\* The closure pushes a clone of the seal into the upgraded legacy, keeps
\* the entry, and drops the upgraded reference when it returns.
RetainPush ==
    /\ pc = "upgraded"
    /\ LET e   == legacies[pos]
           lg  == [legacy EXCEPT ![e] = Append(@, next_index)]
           sc  == [sealCount EXCEPT ![next_index] = @ + 1]
       IN  SetLink(AfterLegacyDrop(e, legacyCount, lg, sc, flag, notify))
    /\ IF Retain(TRUE)
       THEN legacies' = legacies /\ pos' = pos + 1
       ELSE legacies' = RemoveAt(legacies, pos) /\ pos' = pos
    /\ pc' = "retain"
    /\ UNCHANGED <<next_index, last_read, kind, tickets, guards, dataCount,
                   curKind, waitVars, histVars>>

\* retain is done: the new legacy is created and listed, issue() returns
\* and drops its local seal, and the ticket is built around the link, the
\* legacy and a clone of the data.
IssueEnd ==
    /\ pc = "retain"
    /\ pos > Len(legacies)
    /\ LET n  == next_index
           r  == AfterSealDrops(sealCount, flag, notify, <<n>>)
       IN  /\ legacies' = Append(legacies, n)
           /\ legacy' = [legacy EXCEPT ![n] = <<>>]
           /\ legacyCount' = [legacyCount EXCEPT ![n] = 1]
           /\ sealCount' = r.sealCount
           /\ flag' = r.flag
           /\ notify' = r.notify
           /\ kind' = [kind EXCEPT ![n] = curKind]
           /\ tickets' = [tickets EXCEPT ![n] = 1]
    /\ dataCount' = DataWithTicket(dataCount)
    /\ pc' = "idle"
    /\ curKind' = "none"
    /\ pos' = 0
    /\ liveAtStart' = {}
    /\ deadAtStart' = {}
    /\ examinedLive' = {}
    /\ UNCHANGED <<next_index, last_read, guards, waitVars>>

(***************************************************************************)
(* Tickets and guards on any thread                                        *)
(***************************************************************************)

\* ReadTicket derives Clone: the clone shares link, legacy and data.
CloneTicket(i) ==
    /\ kind[i] = "read"
    /\ tickets[i] > 0
    /\ cloned[i] < MaxClones
    /\ cloned' = [cloned EXCEPT ![i] = @ + 1]
    /\ tickets' = [tickets EXCEPT ![i] = @ + 1]
    /\ legacyCount' = [legacyCount EXCEPT ![i] = @ + 1]
    /\ dataCount' = DataWithTicket(dataCount)
    /\ UNCHANGED <<lockVars, flag, notify, sealCount, legacy, kind, guards,
                   parked, woken, order, histVars>>

\* A loop that tests a stale copy of the flag and never sees it set.
AcquiresNever(f) == FALSE

\* A wait that does not test the flag.
AcquiresAlways(f) == TRUE

\* The test of the loop of Ticket::wait, made with the mutex of the link
\* held: the thread leaves the loop when the flag is set.
Acquires(f) == f

\* Ticket::wait locks the mutex and tests the flag: when set, the ticket
\* becomes a guard (legacy and data move into it), else the thread parks
\* in cond_var.wait, which releases the mutex.
Wait(i) ==
    /\ tickets[i] > 0
    /\ tickets' = [tickets EXCEPT ![i] = @ - 1]
    /\ IF Acquires(flag[i])
       THEN /\ guards' = [guards EXCEPT ![i] = @ + 1]
            /\ order' = Append(order, i)
            /\ UNCHANGED parked
       ELSE /\ parked' = [parked EXCEPT ![i] = @ + 1]
            /\ UNCHANGED <<guards, order>>
    /\ UNCHANGED <<lockVars, linkVars, kind, woken, cloned, dataCount,
                   histVars>>

\* A notification that wakes nobody.
NotifiedNone(n) == 0

\* The threads cond_var.notify_all wakes.
Notified(n) == n

\* Seal::drop, after setting the flag: notify_all wakes every parked thread.
NotifyAll(i) ==
    /\ notify[i]
    /\ notify' = [notify EXCEPT ![i] = FALSE]
    /\ parked' = [parked EXCEPT ![i] = @ - Notified(@)]
    /\ woken' = [woken EXCEPT ![i] = @ + Notified(parked[i])]
    /\ UNCHANGED <<lockVars, flag, sealCount, legacy, legacyCount, kind,
                   tickets, guards, cloned, dataCount, order, histVars>>

\* Condvar::wait may return without a notification.
SpuriousWake(i) ==
    /\ parked[i] > 0
    /\ parked' = [parked EXCEPT ![i] = @ - 1]
    /\ woken' = [woken EXCEPT ![i] = @ + 1]
    /\ UNCHANGED <<lockVars, linkVars, kind, tickets, guards, cloned,
                   dataCount, order, histVars>>

\* A woken thread holds the mutex again and tests the flag again.
Recheck(i) ==
    /\ woken[i] > 0
    /\ woken' = [woken EXCEPT ![i] = @ - 1]
    /\ IF Acquires(flag[i])
       THEN /\ guards' = [guards EXCEPT ![i] = @ + 1]
            /\ order' = Append(order, i)
            /\ UNCHANGED parked
       ELSE /\ parked' = [parked EXCEPT ![i] = @ + 1]
            /\ UNCHANGED <<guards, order>>
    /\ UNCHANGED <<lockVars, linkVars, kind, tickets, cloned, dataCount,
                   histVars>>

\* An owner whose drop leaks the vector: the seals in it are never dropped.
AfterOwnerLeak(i) ==
    [legacyCount |-> [legacyCount EXCEPT ![i] = @ - 1], legacy |-> legacy,
     sealCount |-> sealCount, flag |-> flag, notify |-> notify]

\* What the drop of a ticket or guard of index i does to the legacies.
AfterOwnerDrop(i) ==
    AfterLegacyDrop(i, legacyCount, legacy, sealCount, flag, notify)

\* A ticket is dropped without wait: its legacy and data references go.
DropTicket(i) ==
    /\ tickets[i] > 0
    /\ tickets' = [tickets EXCEPT ![i] = @ - 1]
    /\ SetLink(AfterOwnerDrop(i))
    /\ dataCount' = dataCount - 1
    /\ UNCHANGED <<lockVars, kind, guards, waitVars, histVars>>

\* A guard is dropped: its legacy and data references go.
DropGuard(i) ==
    /\ guards[i] > 0
    /\ guards' = [guards EXCEPT ![i] = @ - 1]
    /\ SetLink(AfterOwnerDrop(i))
    /\ dataCount' = dataCount - 1
    /\ UNCHANGED <<lockVars, kind, tickets, waitVars, histVars>>

(***************************************************************************)
(* Teardown: TicketedLock::unlock                                          *)
(***************************************************************************)

\* Whether flush() may return in the current state: its body is empty.
FlushReturns == TRUE

\* unlock() calls flush().
Flush ==
    /\ pc = "idle"
    /\ FlushReturns
    /\ pc' = "flushed"
    /\ UNCHANGED <<next_index, legacies, last_read, curKind, pos, linkVars,
                   kind, tickets, guards, dataCount, waitVars, histVars>>

\* A try_unwrap that tolerates one more owner.
TryUnwrapLax(d) == IF d <= 2 THEN "returned" ELSE "panicked"

\* Arc::try_unwrap succeeds when the strong count is one.
TryUnwrap(d) == IF d = 1 THEN "returned" ELSE "panicked"

\* unlock() after flush(): the payload is returned or the call panics.
\* Either way the lock, with its last_read, is gone.
Extract ==
    /\ pc = "flushed"
    /\ pc' = TryUnwrap(dataCount)
    /\ dataCount' = dataCount - 1
    /\ UNCHANGED <<next_index, legacies, last_read, curKind, pos, linkVars,
                   kind, tickets, guards, waitVars, histVars>>

\* The steps of issuance and of the threads that hold tickets and guards.
NextTickets ==
    \/ \E k \in {"read", "write"} : IssueBegin(k)
    \/ RetainUpgrade
    \/ RetainPush
    \/ IssueEnd
    \/ \E i \in Idx : CloneTicket(i)
    \/ \E i \in Idx : Wait(i)
    \/ \E i \in Idx : NotifyAll(i)
    \/ \E i \in Idx : SpuriousWake(i)
    \/ \E i \in Idx : Recheck(i)
    \/ \E i \in Idx : DropTicket(i)
    \/ \E i \in Idx : DropGuard(i)

Next ==
    \/ NextTickets
    \/ Flush
    \/ Extract

Spec == Init /\ [][Next]_vars

(***************************************************************************)
(* Claims                                                                  *)
(***************************************************************************)

Sorted(s) == \A a, b \in 1..Len(s) : a < b => s[a] <= s[b]

\* Every ticket or guard of index i is gone: the ticket is Released or
\* Abandoned.
Finished(i) == Handles(i) = 0

\* All tickets of index i were dropped without a wait on any of them.
Abandoned(i) == Issued(i) /\ Finished(i) /\ i \notin Range(order)

\* C1: a wait on a ticket of index j returns (a guard of j is created) only
\* in a state where every ticket issued before j is Released or Abandoned,
\* and the waits return in issuance order.
C1_Ordering ==
    [][/\ \A j \in Idx : guards'[j] > guards[j] =>
              \A i \in 1..(j - 1) : Finished(i)
       /\ Sorted(order')]_vars

\* Ticket 2 became active after the guard of ticket 1 was dropped, while a
\* thread is blocked in the wait on ticket 3; all three are write tickets.
C1_Witness ==
    /\ \A i \in 1..3 : kind[i] = "write"
    /\ order = <<1, 2>>
    /\ guards[2] = 1
    /\ parked[3] = 1

\* C2: while a guard of a write ticket is alive no other guard is alive;
\* guards alive at the same time all come from the same read ticket.
C2_MutualExclusion ==
    \A i \in Idx : guards[i] > 0 =>
        /\ \A k \in Idx \ {i} : guards[k] = 0
        /\ kind[i] = "write" => guards[i] = 1

\* Two guards of read ticket 1 and its clone are alive together while
\* threads wait on the write ticket issued after it.
C2_Witness ==
    /\ kind[1] = "read"
    /\ guards[1] = 2
    /\ kind[2] = "write"
    /\ parked[2] = 1

\* C3: read() called when the most recently issued ticket is a read ticket
\* creates no new ordering slot: next_index, the seals and the weak list
\* stay as they are and no issuance begins.
C3_ReadCoalesces ==
    [][(/\ pc = "idle"
        /\ next_index > 0
        /\ kind[next_index] = "read"
        /\ curKind' = "read")
       => /\ next_index' = next_index
          /\ sealCount' = sealCount
          /\ pc' = "idle"]_vars

\* C4: with read tickets issued by consecutive read() calls and every
\* earlier ticket finished, the wait on any of them returns whatever
\* happens to the others: the flag of each of them is set.
C4_ReadsDoNotSerialize ==
    \A i, j \in Idx :
        (/\ pc = "idle"
         /\ i < j
         /\ \A k \in i..j : kind[k] = "read"
         /\ \A k \in 1..(i - 1) : Finished(k))
        => flag[j]

\* C5: the link of an issued ticket stays unreleased only while some
\* earlier ticket or guard is alive (or issue() holds the legacy of one):
\* a ticket dropped without wait holds no successor back.
C5_Abandonment ==
    \A j \in Idx :
        (Issued(j) /\ ~flag[j]) =>
            \E i \in 1..(j - 1) : ~Finished(i) \/ IssueHolds(i)

\* A thread parked in the wait on ticket 2 behind ticket 1; ticket 1 was
\* then dropped without any wait, and the thread was woken.
C5_Witness ==
    /\ Abandoned(1)
    /\ Issued(2)
    /\ flag[2]
    /\ woken[2] = 1
    /\ order = <<>>

\* The scheduling the liveness claim assumes: a ticket is eventually waited
\* on or dropped, a guard is eventually dropped, and a running thread
\* (Seal::drop before notify_all, a woken waiter, issue()) takes its next
\* step.  A spurious wake-up may never happen.
Fairness ==
    /\ \A i \in Idx : WF_vars(Wait(i) \/ DropTicket(i))
    /\ \A i \in Idx : WF_vars(DropGuard(i))
    /\ \A i \in Idx : WF_vars(NotifyAll(i))
    /\ \A i \in Idx : WF_vars(Recheck(i))
    /\ WF_vars(RetainUpgrade)
    /\ WF_vars(RetainPush)
    /\ WF_vars(IssueEnd)

\* The lock in use, before any unlock(), under that scheduling.
FairSpec == Init /\ [][NextTickets]_vars /\ Fairness

\* Threads inside the wait on a ticket of index i.
Waiting(i) == parked[i] + woken[i]

\* C6: under the fair scheduling above every thread inside a wait
\* eventually leaves it with a guard.
C6_Liveness == \A i \in Idx : (Waiting(i) > 0) ~> (Waiting(i) = 0)

\* The waits on three tickets have all returned, one after the other; the
\* guard of the last is the only ticket or guard left.
C6_Witness ==
    /\ order = <<1, 2, 3>>
    /\ guards[3] = 1
    /\ TotalHandles = 1

\* C7: when flush() has returned no ticket or guard is outstanding and the
\* weak list is empty, and unlock() never panics.
C7_FlushDrains ==
    /\ pc = "flushed" => (TotalHandles = 0 /\ legacies = <<>>)
    /\ pc # "panicked"

\* C8: unlock() returns the payload exactly when no ticket and no guard
\* exists at the moment of extraction, and panics otherwise.
C8_UnlockPanics ==
    [][(pc = "flushed" /\ pc' # "flushed") =>
           /\ pc' \in {"returned", "panicked"}
           /\ pc' = "returned" <=> TotalHandles = 0]_vars

\* unlock() has panicked while a guard is alive and a thread is blocked in
\* a wait behind it.
C8_Witness ==
    /\ pc = "panicked"
    /\ guards[1] = 1
    /\ parked[2] = 1

\* C9 as stated: once every ticket issued so far has been dropped without
\* any wait, the weak list is empty.
C9_EmptyAfterDrops ==
    (/\ pc = "idle"
     /\ next_index >= 1
     /\ TotalHandles = 0
     /\ order = <<>>)
    => legacies = <<>>

\* C9 amended: an issuance that begins with every earlier registry dead
\* returns with exactly one entry in the weak list, the new registry, and
\* the list stays as it is until the next issuance.
C9_OneEntryLeft ==
    [][/\ (pc = "retain" /\ pc' = "idle" /\ liveAtStart = {}) =>
              legacies' = <<next_index>>
       /\ pc = "idle" => legacies' = legacies]_vars

\* The last ticket the bound allows has been issued and dropped, like all
\* before it, without any wait: its entry is the only one left.
C9_Witness ==
    /\ pc = "idle"
    /\ next_index = MaxIssue
    /\ TotalHandles = 0
    /\ order = <<>>
    /\ legacies = <<MaxIssue>>

\* C10: when an issuance returns the weak list holds one entry for the new
\* registry and one for each registry whose upgrade succeeded, none for a
\* registry dead when the issuance began, and so at most one more than
\* the registries live at that point.
C10_PruningBound ==
    [][(pc = "retain" /\ pc' = "idle") =>
           /\ Range(legacies') = examinedLive \cup {next_index}
           /\ Len(legacies') = Cardinality(examinedLive) + 1
           /\ Range(legacies') \cap deadAtStart = {}
           /\ examinedLive \subseteq liveAtStart
           /\ Len(legacies') <= Cardinality(liveAtStart) + 1]_vars

\* retain has walked a list with an entry dead from the start, which it
\* removed, and a live entry, which it upgraded and kept.
C10_Witness ==
    /\ pc = "retain"
    /\ pos > Len(legacies)
    /\ deadAtStart # {}
    /\ examinedLive # {}
    /\ Range(legacies) = examinedLive

\* C11: while any clone of a read ticket, or any guard derived from one, is
\* left, the link of no later ticket is released; the step that removes
\* the last of them releases every later ticket that no earlier ticket,
\* guard or upgraded reference of issue() holds back.
C11_ReleasePerRegistry ==
    [][\A i \in Idx : (kind[i] = "read" /\ cloned[i] > 0) =>
          /\ \A j \in (i + 1)..MaxIssue :
                 (Handles(i) > 0 /\ Issued(j)) => ~flag[j]
          /\ (Handles(i) > 0 /\ Handles(i)' = 0) =>
                 \A j \in (i + 1)..MaxIssue :
                     (/\ Issued(j)
                      /\ \A k \in 1..(j - 1) :
                             Finished(k)' /\ ~IssueHolds(k)')
                     => (~flag[j] /\ flag'[j])]_vars

\* Read ticket 1 and its clone were both waited on and both guards dropped;
\* only then did the wait on ticket 2 return.
C11_Witness ==
    /\ kind[1] = "read"
    /\ cloned[1] = 1
    /\ order = <<1, 1, 2>>
    /\ guards[2] = 1

\* C12 as stated: when the issuing call returns, the flag of the new link is
\* set exactly when no earlier registry was live as the issuance began.
C12_FlagByLiveAtStart ==
    [][(pc = "retain" /\ pc' = "idle") =>
           (flag'[next_index] <=> liveAtStart = {})]_vars

\* C12 amended: a ticket issued with no earlier registry live has its flag
\* set when the issuing call returns, and in general the flag is then set
\* exactly when no earlier registry is still live at the return.
C12_FlagByLiveAtReturn ==
    [][(pc = "retain" /\ pc' = "idle") =>
           /\ liveAtStart = {} => flag'[next_index]
           /\ flag'[next_index] <=>
                  \A e \in 1..(next_index - 1) : legacyCount'[e] = 0]_vars

\* The issuance of ticket 2 is about to return; it upgraded the registry
\* of ticket 1, which has died since, so the only seal owner left is the
\* local of issue().
C12_Witness ==
    /\ pc = "retain"
    /\ pos > Len(legacies)
    /\ next_index = 2
    /\ examinedLive = {1}
    /\ legacyCount[1] = 0
    /\ sealCount[2] = 1

\* C13: the flag of a link is false when the link is created, becomes true
\* only in a step in which its seal loses its last owner, is never reset,
\* and a seal once destroyed has no owner again.
C13_FlagOneShot ==
    [][/\ next_index' # next_index => ~flag'[next_index']
       /\ \A i \in Idx :
              /\ flag[i] => flag'[i]
              /\ (~flag[i] /\ flag'[i]) =>
                     (sealCount[i] > 0 /\ sealCount'[i] = 0)
              /\ flag[i] => (sealCount[i] = 0 /\ sealCount'[i] = 0)]_vars

\* The links of three tickets were released one after the other; the
\* thread waiting on the third has been woken.
C13_Witness ==
    /\ \A i \in 1..3 : flag[i] /\ sealCount[i] = 0
    /\ order = <<1, 2>>
    /\ woken[3] = 1

\* C14: across every step that leaves a guard of index i alive, the link of
\* each ticket issued after i stays unreleased, no guard of it exists and
\* no thread leaves the wait on it.
C14_Starvation ==
    [][\A i \in Idx : \A j \in (i + 1)..MaxIssue :
           (guards[i] > 0 /\ guards'[i] > 0) =>
               /\ Issued(j)' => ~flag'[j]
               /\ guards'[j] = 0
               /\ Waiting(j)' >= Waiting(j)]_vars

\* The guard of ticket 1 is held; ticket 2 was dropped without a wait and
\* a thread is still parked in the wait on ticket 3.
C14_Witness ==
    /\ guards[1] = 1
    /\ Abandoned(2)
    /\ parked[3] = 1
    /\ ~flag[3]
    /\ ~notify[3]

\* C15: the cache of the last read ticket is empty during and after a
\* write() until the next read(), it never holds anything but the most
\* recently issued ticket, and a read ticket issued after a write ticket
\* has its link unreleased and no guard while a ticket or guard of that
\* write is left.
C15_WriteIsFresh ==
    /\ curKind = "write" => last_read = 0
    /\ (next_index > 0 /\ kind[next_index] = "write") => last_read = 0
    /\ last_read # 0 =>
           /\ last_read = next_index
           /\ kind[last_read] = "read" \/ curKind = "read"
    /\ \A w, r \in Idx :
           (w < r /\ kind[w] = "write" /\ kind[r] = "read" /\ ~Finished(w))
           => (~flag[r] /\ guards[r] = 0)

\* Read, write, read: the guard of the write is held after the first read
\* was released, and a thread is parked in the wait on the second read.
C15_Witness ==
    /\ kind[1] = "read"
    /\ kind[2] = "write"
    /\ kind[3] = "read"
    /\ order = <<1, 2>>
    /\ guards[2] = 1
    /\ parked[3] = 1

\* C16: every seal in the legacy of index i belongs to a link of an index
\* greater than i, and the legacy a returning issuance has created is
\* empty.
C16_ForwardOnly ==
    [][/\ \A i \in Idx : \A s \in Range(legacy'[i]) : s > i
       /\ (pc = "retain" /\ pc' = "idle") => legacy'[next_index] = <<>>]_vars

\* Three live tickets: the first holds the seals of both successors, the
\* second the seal of the third, the third none.
C16_Witness ==
    /\ legacy[1] = <<2, 3>>
    /\ legacy[2] = <<3>>
    /\ legacy[3] = <<>>
    /\ legacyCount[3] = 1

\* The scheduling the wake-up claim assumes: a Seal::drop that has set the
\* flag goes on to notify_all, and a woken waiter takes the mutex and
\* tests the flag.  Nothing is assumed about tickets and guards.
WakeFairness ==
    /\ \A i \in Idx : WF_vars(NotifyAll(i))
    /\ \A i \in Idx : WF_vars(Recheck(i))

WakeSpec == Init /\ [][NextTickets]_vars /\ WakeFairness

\* C17: a thread is parked on a link whose flag is set only while the
\* notify_all of the Seal::drop that set it is still to come, and once the
\* flag of a link is set every thread inside the wait on it leaves the
\* wait, however many threads wait on clones of the ticket.
C17_NoLostWakeup ==
    /\ [][\A i \in Idx : (parked'[i] > 0 /\ flag'[i]) => notify'[i]]_vars
    /\ \A i \in Idx : (flag[i] /\ Waiting(i) > 0) ~> (Waiting(i) = 0)

\* Two threads parked in the waits on read ticket 2 and its clone behind
\* ticket 1; the flag was set and notify_all has woken both.
C17_Witness ==
    /\ kind[2] = "read"
    /\ cloned[2] = 1
    /\ flag[2]
    /\ ~notify[2]
    /\ woken[2] = 2

\* C18: when issue() lets go of an upgraded legacy whose other owners were
\* all dropped meanwhile, the legacy is destroyed in that step: each seal
\* in it loses one owner, the seal just pushed among them, and its entry
\* stays listed.  An entry leaves the list only when a retain finds it
\* dead, and a ticket whose predecessors are all finished when the
\* issuing call returns has its flag set.
C18_IssueRace ==
    [][/\ (pc = "upgraded" /\ pc' = "retain"
              /\ legacyCount[legacies[pos]] = 1) =>
              LET e == legacies[pos]
              IN  /\ legacyCount'[e] = 0
                  /\ legacy'[e] = <<>>
                  /\ e \in Range(legacies')
                  /\ \A s \in Range(legacy[e]) :
                         sealCount'[s] = sealCount[s] - 1
                  /\ sealCount'[next_index] = sealCount[next_index]
       /\ \A e \in Range(legacies) \ Range(legacies') :
              pc = "retain" /\ legacies[pos] = e /\ legacyCount[e] = 0
       /\ (pc = "retain" /\ pc' = "idle") =>
              ((\A i \in 1..(next_index - 1) : Finished(i))
               => flag'[next_index])]_vars

\* The third issuance holds the legacy of ticket 1 upgraded; the last
\* owner of that legacy has been dropped on another thread, and the seal
\* of ticket 2 in it is not yet released.
C18_Witness ==
    /\ pc = "upgraded"
    /\ next_index = 3
    /\ legacies[pos] = 1
    /\ Handles(1) = 0
    /\ legacyCount[1] = 1
    /\ legacy[1] = <<2>>
    /\ ~flag[2]

====
